---- MODULE Spec2Model ----
(***************************************************************************)
(* flowforge: raster flowchart -> geometry primitives -> flow graph.       *)
(*                                                                         *)
(* The model follows src/flowforge/geometry/raster_detector.py             *)
(* (detect_geometry), src/flowforge/graph/flowgraph.py                     *)
(* (infer_orientation, build_flowgraph, to_json, to_mermaid), the rebuild   *)
(* of a FlowGraph in src/examples/example1_basic.py,                       *)
(* src/flowforge/ocr/tesseract_ocr.py (annotate_ocr),                      *)
(* src/flowforge/semantic/http_utils.py (post_with_retries) and            *)
(* src/flowforge/graph/builder.py (parse_semantic_json).                   *)
(*                                                                         *)
(* Numbers: bounding boxes are integer pixel tuples <<x1, y1, x2, y2>>.    *)
(* A center 0.5 * (a + b) is kept doubled (a + b), so that every           *)
(* comparison of centers and of center distances is exact integer          *)
(* arithmetic.  A gate  overlap <= 0.15 * m  is  100 * overlap <= 15 * m.  *)
(* Python's None is the string NoneVal.                                    *)
(***************************************************************************)
EXTENDS Integers, Sequences, FiniteSets, TLC

VARIABLES
    pc,       \* position in the run: "geometry" -> "built", "image" -> "detected"
    shapes,   \* geometry.shapes given to build_flowgraph: [id, bbox, shape_type]
    hints,    \* yes_no_hints: [isNone, map], map: id -> [left, right]
    forced,   \* forced_orientation (NoneVal when absent)
    flow,     \* what build_flowgraph ended with: [nodes, start_node, orientation, raised]
    image,    \* what the libraries read from image_path: [pil, cv, size, contours]
    params,   \* the calibration dict given to detect_geometry
    geometry, \* the GeometryOutput detect_geometry returned
    export,   \* a FlowGraph being exported: [graph, json, rebuilt, mermaid]
    ocr,      \* an annotate_ocr call: [before, geometry, env, result]
    rerun,    \* a second build_flowgraph call: [shapes, flow]
    http,     \* a post_with_retries call: [max_attempts, backoff, attempt, ...]
    semantic  \* a parse_semantic_json call: [data, result]

vars == <<pc, shapes, hints, forced, flow, image, params, geometry, export, ocr, rerun, http, semantic>>

NoneVal == "None"

(***************************************************************************)
(* Bounds of the model.                                                    *)
(***************************************************************************)
MaxShapes == 3

MaxRects == 4

MaxNodes == 2

MaxAttempts == 3

(***************************************************************************)
(* Input universe of build_flowgraph.  Six 7 x 7 boxes: a column of three  *)
(* (top, middle, bottom), a row of three (left, middle, right), and one    *)
(* box off the grid whose x-span and y-span overlap the middle column and  *)
(* the middle row by one pixel (a positive overlap below the 15% gate) and *)
(* the right column and the bottom row by three.                           *)
(***************************************************************************)
Boxes ==
    {<<10, 0, 17, 7>>, <<0, 10, 7, 17>>, <<10, 10, 17, 17>>,
     <<20, 10, 27, 17>>, <<10, 20, 17, 27>>, <<16, 16, 23, 23>>}

\* a shape is a process or a decision in any box, or a terminator in the top box
ShapeOptions ==
    (Boxes \X {"process", "decision"}) \cup {<<<<10, 0, 17, 7>>, "terminator">>}

SId(i) == "s" \o ToString(i)

Orientations == {NoneVal, "top-down", "left-right", "radial"}

HintValues == {"YES", "NO", NoneVal}

Min2(a, b) == IF a <= b THEN a ELSE b

Max2(a, b) == IF a >= b THEN a ELSE b

\* a sequence given as a function, as an explicit tuple (evaluated once)
AsList(f) == SubSeq(f, 1, Len(f))

(***************************************************************************)
(* flowgraph.py                                                            *)
(***************************************************************************)
\* _center, doubled: x1 + x2 and y1 + y2
CenterX(b) == b[1] + b[3]

CenterY(b) == b[2] + b[4]

\* _overlap_1d
Overlap1d(a1, a2, b1, b2) == Max2(0, Min2(a2, b2) - Max2(a1, b1))

\* a gate that lets any positive overlap pass
OverlapGateAny(a1, a2, b1, b2) == Overlap1d(a1, a2, b1, b2) > 0

\* the "continue" test of the overlap gate is the negation of this
OverlapGate(a1, a2, b1, b2) ==
    100 * Overlap1d(a1, a2, b1, b2) > 15 * Min2(a2 - a1, b2 - b1)

XGate(a, b) == OverlapGate(a[1], a[3], b[1], b[3])

YGate(a, b) == OverlapGate(a[2], a[4], b[2], b[4])

\* "if best is None or dist < best[0]" over a scan in list order: the earliest
\* index among those of least distance; 0 when there is no candidate
Nearest(C, D) ==
    IF C = {} THEN 0
    ELSE CHOOSE j \in C : \A k \in C : D[j] < D[k] \/ (D[j] = D[k] /\ j <= k)

IdOrNone(shs, j) == IF j = 0 THEN NoneVal ELSE shs[j].id

\* infer_orientation: votes are cast by any shape ahead, with no overlap test
HasDown(shs, i) ==
    \E j \in 1..Len(shs) :
        shs[j].id # shs[i].id /\ CenterY(shs[j].bbox) > CenterY(shs[i].bbox)

HasRight(shs, i) ==
    \E j \in 1..Len(shs) :
        shs[j].id # shs[i].id /\ CenterX(shs[j].bbox) > CenterX(shs[i].bbox)

DownVotes(shs) == Cardinality({i \in 1..Len(shs) : HasDown(shs, i)})

RightVotes(shs) == Cardinality({i \in 1..Len(shs) : HasRight(shs, i)})

\* a vote count without the early return, a tie going to left-right
InferOrientationStrict(shs) ==
    IF DownVotes(shs) > RightVotes(shs) THEN "top-down" ELSE "left-right"

InferOrientation(shs) ==
    IF Len(shs) < 2 THEN "top-down"
    ELSE IF DownVotes(shs) >= RightVotes(shs) THEN "top-down" ELSE "left-right"

\* line 78: forced_orientation if forced_orientation else infer_orientation(geometry)
ChosenOrientation(shs, f) == IF f # NoneVal THEN f ELSE InferOrientation(shs)

\* a forward test that takes a center level with the source as ahead
IsForwardOrLevel(s, t, o) ==
    IF o = "top-down"
    THEN CenterY(t.bbox) >= CenterY(s.bbox) /\ XGate(s.bbox, t.bbox)
    ELSE CenterX(t.bbox) >= CenterX(s.bbox) /\ YGate(s.bbox, t.bbox)

\* a forward test that also asks the target for a confidence of one half
IsForwardConfident(s, t, o) ==
    /\ t.confidence >= 50
    /\ IF o = "top-down"
       THEN CenterY(t.bbox) > CenterY(s.bbox) /\ XGate(s.bbox, t.bbox)
       ELSE CenterX(t.bbox) > CenterX(s.bbox) /\ YGate(s.bbox, t.bbox)

\* lines 94-107: t is strictly ahead of s on the flow axis and passes the
\* overlap gate of the other axis
IsForward(s, t, o) ==
    IF o = "top-down"
    THEN CenterY(t.bbox) > CenterY(s.bbox) /\ XGate(s.bbox, t.bbox)
    ELSE CenterX(t.bbox) > CenterX(s.bbox) /\ YGate(s.bbox, t.bbox)

ForwardDist(s, t, o) ==
    IF o = "top-down"
    THEN CenterY(t.bbox) - CenterY(s.bbox)
    ELSE CenterX(t.bbox) - CenterX(s.bbox)

\* lines 85-111: the forward neighbour that becomes out
BestForward(shs, i, o) ==
    LET D == [j \in 1..Len(shs) |-> ForwardDist(shs[i], shs[j], o)]
    IN  Nearest({j \in 1..Len(shs) :
                    shs[j].id # shs[i].id /\ IsForward(shs[i], shs[j], o)}, D)

\* lines 126-129 and 141-143: the overlap gate of a decision's side slots
SideGate(s, t, o) ==
    IF o = "top-down" THEN YGate(s.bbox, t.bbox) ELSE XGate(s.bbox, t.bbox)

\* signed doubled offset of t from s on the branch axis (x in top-down, y otherwise)
SideOffset(s, t, o) ==
    IF o = "top-down"
    THEN CenterX(t.bbox) - CenterX(s.bbox)
    ELSE CenterY(t.bbox) - CenterY(s.bbox)

\* a left slot that also takes a center level with s
IsLeftInclusive(s, t, o) == SideGate(s, t, o) /\ SideOffset(s, t, o) <= 0

\* lines 131 and 144: the left (up) slot takes centers strictly before s
IsLeft(s, t, o) == SideGate(s, t, o) /\ SideOffset(s, t, o) < 0

\* lines 136 and 149: the right (down) slot takes every other gated shape
IsRight(s, t, o) == SideGate(s, t, o) /\ ~(SideOffset(s, t, o) < 0)

\* lines 121-152, left_best
LeftBest(shs, i, o) ==
    LET D == [j \in 1..Len(shs) |-> 0 - SideOffset(shs[i], shs[j], o)]
    IN  Nearest({j \in 1..Len(shs) :
                    shs[j].id # shs[i].id /\ IsLeft(shs[i], shs[j], o)}, D)

\* a right_best search that does not skip the decision itself
RightBestSelf(shs, i, o) ==
    LET D == [j \in 1..Len(shs) |-> SideOffset(shs[i], shs[j], o)]
    IN  Nearest({j \in 1..Len(shs) : IsRight(shs[i], shs[j], o)}, D)

\* lines 121-152, right_best
RightBest(shs, i, o) ==
    LET D == [j \in 1..Len(shs) |-> SideOffset(shs[i], shs[j], o)]
    IN  Nearest({j \in 1..Len(shs) :
                    shs[j].id # shs[i].id /\ IsRight(shs[i], shs[j], o)}, D)

\* lines 80-82 and 85-158: the node map, in insertion order, with out and the
\* provisional branch assignment (left -> out_no, right -> out_yes)
ProvisionalNodes(shs, o) ==
    AsList([i \in 1..Len(shs) |->
        [id      |-> shs[i].id,
         shape   |-> shs[i].shape_type,
         out     |-> IdOrNone(shs, BestForward(shs, i, o)),
         out_yes |-> IF shs[i].shape_type = "decision"
                     THEN IdOrNone(shs, RightBest(shs, i, o)) ELSE NoneVal,
         out_no  |-> IF shs[i].shape_type = "decision"
                     THEN IdOrNone(shs, LeftBest(shs, i, o)) ELSE NoneVal]])

\* a build that never looks at the hint map
HintSwapsNever(h, n) == FALSE

\* an override that asks for a candidate on one side only
HintSwapsOneSided(h, n) ==
    /\ n.shape = "decision"
    /\ ~h.isNone
    /\ n.id \in DOMAIN h.map
    /\ (n.out_no # NoneVal \/ n.out_yes # NoneVal)
    /\ (h.map[n.id].left = "YES" \/ h.map[n.id].right = "NO")

\* lines 160-168: whether the hint entry of a decision node overrides the
\* provisional assignment (n.out_no and n.out_yes hold left_best and right_best)
HintSwaps(h, n) ==
    /\ n.shape = "decision"
    /\ ~h.isNone
    /\ n.id \in DOMAIN h.map
    /\ n.out_no # NoneVal
    /\ n.out_yes # NoneVal
    /\ (h.map[n.id].left = "YES" \/ h.map[n.id].right = "NO")

\* lines 164-165 and 167-168: out_yes = left_best[1], out_no = right_best[1]
ApplyHints(ns, h) ==
    AsList([i \in 1..Len(ns) |->
        IF HintSwaps(h, ns[i])
        THEN [ns[i] EXCEPT !.out_yes = ns[i].out_no, !.out_no = ns[i].out_yes]
        ELSE ns[i]])

NodeIds(ns) == {ns[i].id : i \in 1..Len(ns)}

\* lines 171-175: references to nid counted over out, out_yes and out_no of all nodes
RECURSIVE Incoming(_, _, _)
Incoming(ns, nid, k) ==
    IF k = 0 THEN 0
    ELSE Incoming(ns, nid, k - 1)
         + (IF ns[k].out = nid THEN 1 ELSE 0)
         + (IF ns[k].out_yes = nid THEN 1 ELSE 0)
         + (IF ns[k].out_no = nid THEN 1 ELSE 0)

InDegree(ns, nid) == Incoming(ns, nid, Len(ns))

\* lines 176-180: the first node, in insertion order, with no incoming reference
\* (0 when every node has one)
RECURSIVE FirstZeroFrom(_, _)
FirstZeroFrom(ns, i) ==
    IF i > Len(ns) THEN 0
    ELSE IF InDegree(ns, ns[i].id) = 0 THEN i
    ELSE FirstZeroFrom(ns, i + 1)

FirstZeroIn(ns) == FirstZeroFrom(ns, 1)

\* FlowGraph(nodes, start_node, orientation); nodes in insertion order.  raised
\* is the exception the call ended with instead of returning (NoneVal: it returned).
FlowGraph(ns, start, o, exc) ==
    [nodes |-> ns, start_node |-> start, orientation |-> o, raised |-> exc]

NoFlow == FlowGraph(<<>>, NoneVal, NoneVal, NoneVal)

\* lines 170-185.  When no node is free of incoming references and shapes is not
\* empty, the fallback of lines 181-183 subscripts the ShapePrimitive that min()
\* returns (hasattr(.., 'id') is true of it), which raises TypeError; the nodes
\* built so far are kept in the record for reference.
SelectStart(shs, ns, o) ==
    LET z == FirstZeroIn(ns)
    IN  IF z = 0 /\ Len(shs) > 0
        THEN FlowGraph(ns, NoneVal, o, "TypeError")
        ELSE FlowGraph(ns, IdOrNone(shs, z), o, NoneVal)

(***************************************************************************)
(* raster_detector.py, detect_geometry.  What OpenCV and Pillow compute    *)
(* from the pixels is input: whether each library reads the image, the     *)
(* image size, and per contour its bounding box, its area and the shape    *)
(* type and confidence that lines 113-141 derive from its polygon.         *)
(* Confidences are in hundredths.                                          *)
(***************************************************************************)
BASE_MIN_W == 40

BASE_MIN_H == 40

Pad == 5

BoxW(b) == b[3] - b[1]

BoxH(b) == b[4] - b[2]

BoxArea(b) == BoxW(b) * BoxH(b)

\* a calibration field: absent from the dict, JSON null, a value int() rejects,
\* or an integer
Absent == [tag |-> "absent", val |-> 0]

Null == [tag |-> "null", val |-> 0]

Bad == [tag |-> "bad", val |-> 0]

IntField(n) == [tag |-> "int", val |-> n]

\* what int(...) gives: a value, or a TypeError / ValueError
Value(n) == [raised |-> FALSE, val |-> n]

Raise == [raised |-> TRUE, val |-> 0]

\* lines 79-80: int(params.get(key, default)) if params else default
IntOrDefault(p, fld, default) ==
    IF p.isNone \/ fld.tag = "absent" THEN Value(default)
    ELSE IF fld.tag = "int" THEN Value(fld.val)
    ELSE Raise

\* line 249: int(params.get("estimated_node_count") or 0)
EstimatedNodeCount(fld) ==
    IF fld.tag \in {"absent", "null"} THEN Value(0)
    ELSE IF fld.tag = "int" THEN Value(fld.val)
    ELSE Raise

\* lines 76-92: MIN_W, MIN_H, and min_area scaled by 20000
MinW(mw) == (6 * Max2(mw, BASE_MIN_W)) \div 10

MinH(mh) == (6 * Max2(mh, BASE_MIN_H)) \div 10

MinArea20000(mw, mh, size) ==
    Max2(Max2(150 * 20000, 3 * size[1] * size[2]),
         5000 * Max2(mw, BASE_MIN_W) * Max2(mh, BASE_MIN_H))

\* lines 143-150: aspect-ratio plausibility of a classified contour
AspectOk(c) ==
    LET w == BoxW(c.bbox)
        h == BoxH(c.bbox)
    IN  /\ c.stype = "process" => (10 * w >= 6 * h /\ w <= 5 * h)
        /\ c.stype = "decision" => (10 * w >= 5 * h /\ 10 * w <= 16 * h)
        /\ c.stype = "terminator" => (10 * w >= 7 * h /\ w <= 5 * h)

\* lines 96-152: the contours that become rects
KeepContour(c, mw, mh, size) ==
    /\ ~(20000 * c.area < MinArea20000(mw, mh, size))
    /\ ~(BoxW(c.bbox) < MinW(mw) \/ BoxH(c.bbox) < MinH(mh))
    /\ AspectOk(c)

Rect(c) == [bbox |-> c.bbox, stype |-> c.stype, conf |-> c.conf]

RECURSIVE ContourRects(_, _, _, _)
ContourRects(cs, mw, mh, size) ==
    IF cs = <<>> THEN <<>>
    ELSE IF KeepContour(Head(cs), mw, mh, size)
         THEN <<Rect(Head(cs))>> \o ContourRects(Tail(cs), mw, mh, size)
         ELSE ContourRects(Tail(cs), mw, mh, size)

\* _is_close, lines 155-167
IsClose(a, b) ==
    ~(a[3] < b[1] - Pad \/ b[3] < a[1] - Pad \/ a[4] < b[2] - Pad \/ b[4] < a[2] - Pad)

\* lines 172-184: the index of the first merged entry close to r, 0 when none
RECURSIVE FirstClose(_, _, _)
FirstClose(merged, r, k) ==
    IF k > Len(merged) THEN 0
    ELSE IF IsClose(r.bbox, merged[k].bbox) THEN k
    ELSE FirstClose(merged, r, k + 1)

\* lines 175-182: the entry m grown by r
Expand(m, r) ==
    [bbox  |-> <<Min2(m.bbox[1], r.bbox[1]), Min2(m.bbox[2], r.bbox[2]),
                 Max2(m.bbox[3], r.bbox[3]), Max2(m.bbox[4], r.bbox[4])>>,
     stype |-> IF r.conf > m.conf THEN r.stype ELSE m.stype,
     conf  |-> IF r.conf > m.conf THEN r.conf ELSE m.conf]

MergeOne(merged, r) ==
    LET k == FirstClose(merged, r, 1)
    IN  IF k = 0 THEN Append(merged, r)
        ELSE [merged EXCEPT ![k] = Expand(merged[k], r)]

\* lines 169-187: one pass over rects in order
RECURSIVE MergeFrom(_, _, _)
MergeFrom(merged, rects, k) ==
    IF k > Len(rects) THEN merged
    ELSE MergeFrom(MergeOne(merged, rects[k]), rects, k + 1)

Merge(rects) == MergeFrom(<<>>, rects, 1)

\* iou, lines 190-203: intersection and union areas (the 1e-6 added to the union
\* turns  iou < 0.6  into  5 * inter <= 3 * union  and  iou > 0.8  into
\* 5 * inter > 4 * union  over integers)
Inter(a, b) ==
    Max2(0, Min2(a[3], b[3]) - Max2(a[1], b[1]))
        * Max2(0, Min2(a[4], b[4]) - Max2(a[2], b[2]))

Union(a, b) == Max2(0, BoxArea(a)) + Max2(0, BoxArea(b)) - Inter(a, b)

IouBelow06(a, b) == 5 * Inter(a, b) <= 3 * Union(a, b)

IouAbove08(a, b) == 5 * Inter(a, b) > 4 * Union(a, b)

\* the sort key of lines 205-209: (confidence, area), compared as tuples
KeyLess(r, q) ==
    r.conf < q.conf \/ (r.conf = q.conf /\ BoxArea(r.bbox) < BoxArea(q.bbox))

\* sorted(..., reverse=True) is stable: r goes behind every entry whose key is
\* not less than its own
RECURSIVE InsertDesc(_, _, _)
InsertDesc(sorted, r, k) ==
    IF k > Len(sorted) THEN Append(sorted, r)
    ELSE IF KeyLess(sorted[k], r)
         THEN SubSeq(sorted, 1, k - 1) \o <<r>> \o SubSeq(sorted, k, Len(sorted))
         ELSE InsertDesc(sorted, r, k + 1)

RECURSIVE SortFrom(_, _, _)
SortFrom(sorted, rects, k) ==
    IF k > Len(rects) THEN sorted
    ELSE SortFrom(InsertDesc(sorted, rects[k], 1), rects, k + 1)

RectsSorted(rects) == SortFrom(<<>>, rects, 1)

\* lines 210-213: greedy non-maximum suppression
RECURSIVE PickFrom(_, _, _)
PickFrom(picked, rs, k) ==
    IF k > Len(rs) THEN picked
    ELSE IF \A i \in 1..Len(picked) : IouBelow06(rs[k].bbox, picked[i].bbox)
         THEN PickFrom(Append(picked, rs[k]), rs, k + 1)
         ELSE PickFrom(picked, rs, k + 1)

\* a suppression pass over the merged rects in their own order
NmsUnsorted(rects) == PickFrom(<<>>, rects, 1)

Nms(rects) == PickFrom(<<>>, RectsSorted(rects), 1)

\* a removal test by containment: r lies inside q and has under a fifth of its area
NestedInContained(r, q) ==
    /\ q.bbox[1] <= r.bbox[1] /\ q.bbox[2] <= r.bbox[2]
    /\ r.bbox[3] <= q.bbox[3] /\ r.bbox[4] <= q.bbox[4]
    /\ 5 * Max2(1, BoxArea(r.bbox)) < Max2(1, BoxArea(q.bbox))

\* lines 216-231: drop a box nested in a much larger one
NestedIn(r, q) ==
    /\ ~(Max2(1, BoxArea(q.bbox)) <= Max2(1, BoxArea(r.bbox)))
    /\ IouAbove08(r.bbox, q.bbox)
    /\ 5 * Max2(1, BoxArea(r.bbox)) < Max2(1, BoxArea(q.bbox))

RECURSIVE FilterNestedFrom(_, _)
FilterNestedFrom(picked, k) ==
    IF k > Len(picked) THEN <<>>
    ELSE IF \E i \in 1..Len(picked) : i # k /\ NestedIn(picked[k], picked[i])
         THEN FilterNestedFrom(picked, k + 1)
         ELSE <<picked[k]>> \o FilterNestedFrom(picked, k + 1)

FilterNested(picked) == FilterNestedFrom(picked, 1)

\* lines 233-245: a ShapePrimitive per picked box of an allowed type, named
\* after the box's index in picked
RECURSIVE MaterializeFrom(_, _)
MaterializeFrom(picked, k) ==
    IF k > Len(picked) THEN <<>>
    ELSE IF picked[k].stype \in {"process", "decision", "terminator"}
         THEN <<[id |-> SId(k - 1), bbox |-> picked[k].bbox,
                 shape_type |-> picked[k].stype, confidence |-> picked[k].conf]>>
              \o MaterializeFrom(picked, k + 1)
         ELSE MaterializeFrom(picked, k + 1)

Materialize(picked) == MaterializeFrom(picked, 1)

\* lines 251-255: sorted by bbox area, largest first (stable), cut to n
RECURSIVE InsertByArea(_, _, _)
InsertByArea(sorted, sh, k) ==
    IF k > Len(sorted) THEN Append(sorted, sh)
    ELSE IF BoxArea(sorted[k].bbox) < BoxArea(sh.bbox)
         THEN SubSeq(sorted, 1, k - 1) \o <<sh>> \o SubSeq(sorted, k, Len(sorted))
         ELSE InsertByArea(sorted, sh, k + 1)

RECURSIVE SortByAreaFrom(_, _, _)
SortByAreaFrom(sorted, shs, k) ==
    IF k > Len(shs) THEN sorted
    ELSE SortByAreaFrom(InsertByArea(sorted, shs[k], 1), shs, k + 1)

\* a cap that keeps the first 3 x est shapes in detection order
CapFirst(shs, est) ==
    IF est > 0 /\ Len(shs) > 3 * est THEN SubSeq(shs, 1, 3 * est) ELSE shs

\* lines 247-255: the cap to 3 x estimated node count
CapShapes(shs, est) ==
    IF est > 0 /\ Len(shs) > 3 * est
    THEN SubSeq(SortByAreaFrom(<<>>, shs, 1), 1, 3 * est)
    ELSE shs

\* lines 281-283 and 289-291: the 20% overlap test of the connector search
ConnGate(a1, a2, b1, b2) ==
    100 * Overlap1d(a1, a2, b1, b2) > 20 * Min2(a2 - a1, b2 - b1)

IsDown(s, t) ==
    /\ CenterY(t.bbox) > CenterY(s.bbox)
    /\ ConnGate(s.bbox[1], s.bbox[3], t.bbox[1], t.bbox[3])

IsRightOf(s, t) ==
    /\ CenterX(t.bbox) > CenterX(s.bbox)
    /\ ConnGate(s.bbox[2], s.bbox[4], t.bbox[2], t.bbox[4])

BestDown(shs, i) ==
    LET D == [j \in 1..Len(shs) |-> CenterY(shs[j].bbox) - CenterY(shs[i].bbox)]
    IN  Nearest({j \in 1..Len(shs) : shs[j].id # shs[i].id /\ IsDown(shs[i], shs[j])}, D)

BestRight(shs, i) ==
    LET D == [j \in 1..Len(shs) |-> CenterX(shs[j].bbox) - CenterX(shs[i].bbox)]
    IN  Nearest({j \in 1..Len(shs) : shs[j].id # shs[i].id /\ IsRightOf(shs[i], shs[j])}, D)

\* ConnectorPrimitive, lines 301-324; points are the two integer centers
Connector(s, t, suffix) ==
    [id      |-> "c_" \o s.id \o "_" \o t.id \o "_" \o suffix,
     from_id |-> s.id,
     to_id   |-> t.id,
     points  |-> <<<<CenterX(s.bbox) \div 2, CenterY(s.bbox) \div 2>>,
                   <<CenterX(t.bbox) \div 2, CenterY(t.bbox) \div 2>>>>]

\* lines 265-324: per shape, in order, the downward then the rightward connector
RECURSIVE ConnectorsFrom(_, _)
ConnectorsFrom(shs, k) ==
    IF k > Len(shs) THEN <<>>
    ELSE LET d == BestDown(shs, k)
             r == BestRight(shs, k)
         IN  (IF d = 0 THEN <<>> ELSE <<Connector(shs[k], shs[d], "v")>>)
             \o (IF r = 0 THEN <<>> ELSE <<Connector(shs[k], shs[r], "h")>>)
             \o ConnectorsFrom(shs, k + 1)

Connectors(shs) == ConnectorsFrom(shs, 1)

\* GeometryOutput with the lists the reduction went through
Geometry(shs, conns, name, size, st) ==
    [shapes |-> shs, connectors |-> conns, detector |-> name, image_size |-> size,
     stages |-> st]

NoStages == [rects |-> <<>>, merged |-> <<>>, picked |-> <<>>, filtered |-> <<>>,
             materialized |-> <<>>]

\* an except branch that returns no shape at all
FallbackEmpty(size) ==
    Geometry(<<>>, <<>>, "placeholder", size, NoStages)

\* lines 328-341: the degraded result of the except branch
Fallback(size) ==
    Geometry(<<[id |-> "s0", bbox |-> <<0, 0, size[1], size[2]>>,
                shape_type |-> "unknown", confidence |-> 10]>>,
             <<>>, "placeholder", size, NoStages)

\* the try block, lines 73-326, once cv2 has read the image
Detect(img, p) ==
    LET mw == IntOrDefault(p, p.median_shape_width, BASE_MIN_W)
        mh == IntOrDefault(p, p.median_shape_height, BASE_MIN_H)
    IN  IF mw.raised \/ mh.raised THEN Fallback(img.size)
        ELSE LET rects    == ContourRects(img.contours, mw.val, mh.val, img.size)
                 merged   == Merge(rects)
                 picked   == Nms(merged)
                 filtered == FilterNested(picked)
                 mat      == Materialize(filtered)
                 capped   == ~p.isNone /\ mat # <<>>
                 est      == EstimatedNodeCount(p.estimated_node_count)
                 st       == [rects |-> rects, merged |-> merged, picked |-> picked,
                              filtered |-> filtered, materialized |-> mat]
             IN  IF capped /\ est.raised THEN [Fallback(img.size) EXCEPT !.stages = st]
                 ELSE LET shs == IF capped THEN CapShapes(mat, est.val) ELSE mat
                      IN  Geometry(shs, Connectors(shs), "opencv-calibrated", img.size, st)

\* detect_geometry(image_path, params): img.pil and img.cv tell whether Pillow
\* and OpenCV read the file; with neither the size stays unknown and becomes 0 x 0
detect_geometry(img, p) ==
    IF img.cv THEN Detect(img, p)
    ELSE IF img.pil THEN Fallback(img.size)
    ELSE Fallback(<<0, 0>>)

(***************************************************************************)
(* to_json, the rebuild of the pipeline example, to_mermaid                *)
(***************************************************************************)
\* A text is a sequence of characters; ids, shapes and orientations are
\* identifiers, kept whole.  DQ, NL and BS are the characters json.dumps
\* escapes and to_mermaid may meet in a label.
DQ == "\""

NL == "\n"

BS == "\\"

\* json.dumps of a str body: the escapes of ", \ and newline
RECURSIVE Escape(_)
Escape(chars) ==
    IF chars = <<>> THEN <<>>
    ELSE LET c == Head(chars)
             e == IF c = DQ THEN <<BS, DQ>>
                  ELSE IF c = BS THEN <<BS, BS>>
                  ELSE IF c = NL THEN <<BS, "n">>
                  ELSE <<c>>
         IN  e \o Escape(Tail(chars))

\* json.loads of a str body
RECURSIVE Unescape(_)
Unescape(toks) ==
    IF toks = <<>> THEN <<>>
    ELSE IF Head(toks) = BS /\ Len(toks) >= 2
         THEN LET c == toks[2]
              IN  <<IF c = "n" THEN NL ELSE c>> \o Unescape(Tail(Tail(toks)))
         ELSE <<Head(toks)>> \o Unescape(Tail(toks))

\* a text written between quotes as it is
DumpStrRaw(chars) == <<DQ>> \o chars \o <<DQ>>

\* json.dumps / json.loads of a text
DumpStr(chars) == <<DQ>> \o Escape(chars) \o <<DQ>>

LoadStr(toks) == Unescape(SubSeq(toks, 2, Len(toks) - 1))

\* json.dumps / json.loads of an Optional[str] holding an identifier
DumpId(v) == IF v = NoneVal THEN <<"null">> ELSE <<DQ, v, DQ>>

LoadId(toks) == IF toks = <<"null">> THEN NoneVal ELSE toks[2]

\* to_json(flow): the members of the serialized object, in the order written
to_json(g) ==
    [orientation |-> DumpId(g.orientation),
     start_node |-> DumpId(g.start_node),
     nodes |-> [i \in 1..Len(g.nodes) |->
                 [key |-> DumpId(g.nodes[i].id),
                  id |-> DumpId(g.nodes[i].id),
                  shape |-> DumpId(g.nodes[i].shape),
                  text |-> DumpStr(g.nodes[i].text),
                  out |-> DumpId(g.nodes[i].out),
                  out_yes |-> DumpId(g.nodes[i].out_yes),
                  out_no |-> DumpId(g.nodes[i].out_no)]]]

\* the pipeline example's rebuild from the loaded object; to_json writes
\* every key, so no .get default applies
Rebuild(doc) ==
    [nodes |-> [i \in 1..Len(doc.nodes) |->
                 [id |-> LoadId(doc.nodes[i].id),
                  shape |-> LoadId(doc.nodes[i].shape),
                  text |-> LoadStr(doc.nodes[i].text),
                  out |-> LoadId(doc.nodes[i].out),
                  out_yes |-> LoadId(doc.nodes[i].out_yes),
                  out_no |-> LoadId(doc.nodes[i].out_no)]],
     start_node |-> LoadId(doc.start_node),
     orientation |-> LoadId(doc.orientation)]

\* str.replace('"', "'")
RECURSIVE ReplaceQuotes(_)
ReplaceQuotes(chars) ==
    IF chars = <<>> THEN <<>>
    ELSE <<IF Head(chars) = DQ THEN "'" ELSE Head(chars)>>
         \o ReplaceQuotes(Tail(chars))

\* node_label(n)
node_label(n) ==
    LET txt == ReplaceQuotes(n.text)
    IN  IF n.shape = "decision" THEN <<"{">> \o txt \o <<"}">>
        ELSE IF n.shape = "terminator" THEN <<"([">> \o txt \o <<"])">>
        ELSE IF n.shape = "input_output" THEN <<"[/">> \o txt \o <<"/]">>
        ELSE <<"[">> \o txt \o <<"]">>

\* a pointer the edge loop writes: `if n.out:` takes a non-empty string
Truthy(v) == v # NoneVal /\ v # ""

\* the edge lines of one node
EdgeLines(n) ==
    (IF Truthy(n.out) THEN <<<<"    ", n.id, " --> ", n.out>>>> ELSE <<>>)
    \o (IF Truthy(n.out_yes)
        THEN <<<<"    ", n.id, " --|YES|--> ", n.out_yes>>>> ELSE <<>>)
    \o (IF Truthy(n.out_no)
        THEN <<<<"    ", n.id, " --|NO|--> ", n.out_no>>>> ELSE <<>>)

RECURSIVE EdgeLinesFrom(_, _)
EdgeLinesFrom(ns, i) ==
    IF i > Len(ns) THEN <<>> ELSE EdgeLines(ns[i]) \o EdgeLinesFrom(ns, i + 1)

\* the list `lines` to_mermaid builds
MermaidLines(g) ==
    <<<<"flowchart ", IF g.orientation # "left-right" THEN "TD" ELSE "LR">>>>
    \o [i \in 1..Len(g.nodes) |->
          <<"    ", g.nodes[i].id>> \o node_label(g.nodes[i])]
    \o EdgeLinesFrom(g.nodes, 1)

\* "\n".join(lines)
RECURSIVE JoinFrom(_, _)
JoinFrom(ls, i) ==
    IF i > Len(ls) THEN <<>>
    ELSE (IF i > 1 THEN <<NL>> ELSE <<>>) \o ls[i] \o JoinFrom(ls, i + 1)

\* to_mermaid(flow): the returned string
to_mermaid(g) == JoinFrom(MermaidLines(g), 1)

(***************************************************************************)
(* tesseract_ocr.py, annotate_ocr.  What pytesseract and Pillow do is      *)
(* input: whether the libraries import, whether the image opens, and per   *)
(* shape whether the OCR of its crop raises or which raw string it gives.  *)
(* An Optional[str] text is [none, chars].                                 *)
(***************************************************************************)
TextNone == [none |-> TRUE, chars |-> <<>>]

Text(chars) == [none |-> FALSE, chars |-> chars]

\* str.strip(): leading and trailing blanks and newlines removed
RECURSIVE LStrip(_)
LStrip(chars) ==
    IF chars # <<>> /\ Head(chars) \in {" ", NL} THEN LStrip(Tail(chars)) ELSE chars

RECURSIVE RStrip(_)
RStrip(chars) ==
    IF chars # <<>> /\ chars[Len(chars)] \in {" ", NL}
    THEN RStrip(SubSeq(chars, 1, Len(chars) - 1)) ELSE chars

Strip(chars) == RStrip(LStrip(chars))

\* truthiness of an Optional[str]
TextTruthy(t) == ~t.none /\ t.chars # <<>>

\* line 70 with the text as read, empty or not
TextAsRead(text, old) == text

\* line 70: text or shape.text
TextOr(text, old) == IF TextTruthy(text) THEN text ELSE old

\* lines 57-63: the text after the inner try; it stays shape.text when the
\* crop, the preprocessing or image_to_string raises
OcrText(shape, outcome) ==
    IF outcome.raises THEN shape.text ELSE Text(Strip(outcome.raw))

\* lines 64-72: the ShapePrimitive appended for one shape
AnnotateShape(shape, outcome) ==
    [id |-> shape.id, bbox |-> shape.bbox, shape_type |-> shape.shape_type,
     text |-> TextOr(OcrText(shape, outcome), shape.text),
     confidence |-> shape.confidence]

\* annotate_ocr(image_path, geometry): the input itself when the libraries are
\* missing (lines 47-49) or the image does not open (lines 73-74)
annotate_ocr(g, env) ==
    IF ~env.lib \/ ~env.opens THEN g
    ELSE [g EXCEPT !.shapes =
            [i \in 1..Len(g.shapes) |-> AnnotateShape(g.shapes[i], env.outcomes[i])]]

(***************************************************************************)
(* semantic/http_utils.py, post_with_retries.  What requests.post and      *)
(* raise_for_status do is input: each request succeeds, raises a           *)
(* requests.RequestException, or raises something else.  Sleeps are in     *)
(* tenths of a second.                                                     *)
(***************************************************************************)
\* a give-up test that lets one more failure pass
ExhaustedLate(attempt, max_attempts) == attempt > max_attempts

\* line 28: if attempt >= max_attempts: raise
Exhausted(attempt, max_attempts) == attempt >= max_attempts

\* line 30: backoff * (2 ** (attempt - 1))
SleepTime(backoff, attempt) == backoff * 2 ^ (attempt - 1)

RequestExceptions == {"Timeout", "HTTPError"}

(***************************************************************************)
(* graph/builder.py, parse_semantic_json.  A JSON object is a record whose *)
(* members are Missing when the key is absent, NoneVal for null, or the    *)
(* value; a rankdir is [kind, chars] with kind "missing", "str" or         *)
(* "number".                                                               *)
(***************************************************************************)
Missing == "<missing>"

\* dict.get(key, default)
Get(v, default) == IF v = Missing THEN default ELSE v

\* _normalize_edge_keys: 'source' / 'target' stand in for an absent 'from' /
\* 'to', then 'from' / 'to' are renamed to from_id / to_id
NormalizeEdgeKeys(e) ==
    LET from == IF e.source # Missing /\ e.from = Missing THEN e.source ELSE e.from
        to   == IF e.target # Missing /\ e.to = Missing THEN e.target ELSE e.to
    IN  [from_id |-> from, to_id |-> to, label |-> e.label]

\* lines 49-58: the Edge built from one entry
ParseEdge(e) ==
    LET n == NormalizeEdgeKeys(e)
    IN  [from_id |-> Get(n.from_id, NoneVal), to_id |-> Get(n.to_id, NoneVal),
         label |-> Get(n.label, NoneVal)]

\* lines 37-46: the Node built from one entry
ParseNode(n) ==
    [id |-> Get(n.id, NoneVal),
     inferred_shape |-> Get(n.inferred_shape, "unknown"),
     text_summary |-> Get(n.text_summary, ""),
     role |-> Get(n.role, NoneVal)]

\* str.upper() on the letters in use
UpperChar(c) ==
    IF c = "l" THEN "L" ELSE IF c = "r" THEN "R" ELSE IF c = "t" THEN "T"
    ELSE IF c = "b" THEN "B" ELSE IF c = "d" THEN "D" ELSE c

Upper(chars) == [i \in 1..Len(chars) |-> UpperChar(chars[i])]

\* str.startswith
StartsWith(chars, prefix) ==
    Len(chars) >= Len(prefix) /\ SubSeq(chars, 1, Len(prefix)) = prefix

\* a layout step that never looks at rankdir
OrientationIgnoringRankdir(layout) == Get(layout.orientation, "top-down")

\* lines 60-71: the orientation member of the returned layout; layout is the
\* dict after `data.get("layout", {}) or {}`
LayoutOrientation(layout) ==
    LET rd == Upper(layout.rankdir.chars)
    IN  IF layout.rankdir.kind = "str" /\ StartsWith(rd, <<"L", "R">>)
        THEN "left-right"
        ELSE IF layout.rankdir.kind = "str"
                /\ (StartsWith(rd, <<"T", "B">>) \/ StartsWith(rd, <<"T", "D">>))
        THEN "top-down"
        ELSE Get(layout.orientation, "top-down")

NoRankdir == [kind |-> "missing", chars |-> <<>>]

EmptyLayout == [orientation |-> Missing, rankdir |-> NoRankdir]

\* parse_semantic_json(data): layout.orientation, nodes and edges of the
\* SemanticSkeleton
parse_semantic_json(data) ==
    [orientation |-> LayoutOrientation(IF data.layout.kind = "dict"
                                       THEN data.layout.dict ELSE EmptyLayout),
     nodes |-> IF data.nodes.present
               THEN [i \in 1..Len(data.nodes.list) |-> ParseNode(data.nodes.list[i])]
               ELSE <<>>,
     edges |-> IF data.edges.present
               THEN [i \in 1..Len(data.edges.list) |-> ParseEdge(data.edges.list[i])]
               ELSE <<>>]

(***************************************************************************)
(* State machine                                                           *)
(***************************************************************************)
\* a GeometryOutput handed to build_flowgraph: up to max shapes in at most
\* three different placements (box and type), ids s0, s1, ...
ShapeLists(max) ==
    {f \in UNION {[1..n -> ShapeOptions] : n \in 0..max} :
        Cardinality({f[i] : i \in 1..Len(f)}) <= 3}

MkShapes(f) ==
    [i \in 1..Len(f) |-> [id |-> SId(i - 1), bbox |-> f[i][1], shape_type |-> f[i][2]]]

\* yes_no_hints = None, and yes_no_hints = {}
NoHints == [isNone |-> TRUE, map |-> <<>>]

EmptyHints == [isNone |-> FALSE, map |-> <<>>]

\* a hint map is None, empty, or gives one entry <<left, right>> to every id in ids
HintMaps(ids) ==
    {NoHints, EmptyHints} \cup
    {[isNone |-> FALSE, map |-> [s \in ids |-> [left |-> l, right |-> r]]] :
        l \in HintValues, r \in HintValues}

\* the image handed to detect_geometry: 400 x 300 pixels, up to MaxRects contours
ImgSize == <<400, 300>>

ContourOptions ==
    {[bbox |-> <<0, 0, 30, 30>>, area |-> 900, stype |-> "process", conf |-> 75],
     [bbox |-> <<32, 32, 62, 62>>, area |-> 450, stype |-> "decision", conf |-> 72],
     [bbox |-> <<36, 0, 62, 26>>, area |-> 676, stype |-> "process", conf |-> 60],
     [bbox |-> <<100, 0, 140, 40>>, area |-> 1256, stype |-> "terminator", conf |-> 68],
     [bbox |-> <<100, 100, 140, 140>>, area |-> 800, stype |-> "decision", conf |-> 72],
     [bbox |-> <<200, 100, 260, 160>>, area |-> 3600, stype |-> "process", conf |-> 75],
     [bbox |-> <<200, 0, 240, 40>>, area |-> 1000, stype |-> "unknown", conf |-> 50],
     [bbox |-> <<170, 100, 194, 140>>, area |-> 480, stype |-> "decision", conf |-> 72],
     [bbox |-> <<190, 100, 260, 160>>, area |-> 4200, stype |-> "process", conf |-> 60]}

ContourLists(max) ==
    UNION {[1..n -> ContourOptions] : n \in 0..max}

Images(max) ==
    {[pil |-> TRUE, cv |-> TRUE, size |-> ImgSize, contours |-> AsList(cs)] :
        cs \in ContourLists(max)}
    \cup {[pil |-> FALSE, cv |-> TRUE, size |-> ImgSize, contours |-> <<>>]}
    \cup {[pil |-> b, cv |-> FALSE, size |-> ImgSize, contours |-> <<>>] : b \in BOOLEAN}

NoImage == [pil |-> FALSE, cv |-> FALSE, size |-> <<0, 0>>, contours |-> <<>>]

\* the calibration dict: None, or the three fields detect_geometry reads
NoParams ==
    [isNone |-> TRUE, median_shape_width |-> Absent, median_shape_height |-> Absent,
     estimated_node_count |-> Absent]

Params(mw, mh, est) ==
    [isNone |-> FALSE, median_shape_width |-> mw, median_shape_height |-> mh,
     estimated_node_count |-> est]

ParamOptions ==
    {NoParams,
     Params(Absent, Absent, Absent),
     Params(Absent, Absent, IntField(1)),
     Params(Absent, Absent, IntField(0)),
     Params(Absent, Absent, Null),
     Params(Absent, Absent, Bad),
     Params(Null, Absent, Absent),
     Params(Absent, Bad, Absent),
     Params(IntField(100), IntField(100), IntField(1))}

\* the calibrations paired with the longest contour lists: those under which
\* the count cap is reached or stays off
CapParamOptions == {NoParams, Params(Absent, Absent, IntField(1))}

NoGeometry == Geometry(<<>>, <<>>, NoneVal, <<0, 0>>, NoStages)

\* FlowGraphs handed to the exports: node contents by position, ids s0, s1, ...
\* in insertion order; pointers may dangle, mix or be empty strings
ExportNode(shape, text, out, yes, no) ==
    [shape |-> shape, text |-> text, out |-> out, out_yes |-> yes, out_no |-> no]

ExportNodeOptions ==
    {ExportNode("process", <<"a">>, "s1", NoneVal, NoneVal),
     ExportNode("decision", <<"a", DQ, "b">>, NoneVal, "s1", "s2"),
     ExportNode("terminator", <<>>, NoneVal, NoneVal, NoneVal),
     ExportNode("process", <<"a", NL, "b">>, "s0", NoneVal, NoneVal),
     ExportNode("input_output", <<BS, "n">>, "s1", "s0", NoneVal),
     ExportNode("unknown", <<"a">>, "", NoneVal, "s0")}

ExportNodeLists(max) ==
    UNION {[1..n -> ExportNodeOptions] : n \in 0..max}

MkGraph(f, start, orient) ==
    [nodes |-> [i \in 1..Len(f) |->
                 [id |-> SId(i - 1), shape |-> f[i].shape, text |-> f[i].text,
                  out |-> f[i].out, out_yes |-> f[i].out_yes,
                  out_no |-> f[i].out_no]],
     start_node |-> start,
     orientation |-> orient]

ExportGraphs(max) ==
    {MkGraph(f, st, o) : f \in ExportNodeLists(max), st \in {NoneVal, "s0"},
                         o \in {"top-down", "left-right", "radial"}}

NoGraph == MkGraph(<<>>, NoneVal, NoneVal)

NoDoc == to_json(NoGraph)

NoExport == [graph |-> NoGraph, json |-> NoDoc, rebuilt |-> NoGraph, mermaid |-> <<>>]

\* GeometryOutputs handed to annotate_ocr: shapes by position with ids s0, s1,
\* ..., a connector between the first two, the metadata of detect_geometry
OcrShapeOptions ==
    {[bbox |-> <<0, 0, 30, 30>>, shape_type |-> "process", text |-> TextNone,
      confidence |-> 75],
     [bbox |-> <<32, 32, 62, 62>>, shape_type |-> "decision",
      text |-> Text(<<"o", "l", "d">>), confidence |-> 72],
     [bbox |-> <<0, 0, 400, 300>>, shape_type |-> "unknown", text |-> Text(<<>>),
      confidence |-> 10]}

\* per shape: the OCR raises, or gives nothing, blanks only, or a padded word
OcrOutcomes ==
    {[raises |-> TRUE, raw |-> <<>>],
     [raises |-> FALSE, raw |-> <<>>],
     [raises |-> FALSE, raw |-> <<" ", NL>>],
     [raises |-> FALSE, raw |-> <<" ", "H", "i", NL>>]}

OcrShapeLists(max) == UNION {[1..n -> OcrShapeOptions] : n \in 0..max}

MkOcrGeometry(f) ==
    LET shs == [i \in 1..Len(f) |->
                  [id |-> SId(i - 1), bbox |-> f[i].bbox,
                   shape_type |-> f[i].shape_type, text |-> f[i].text,
                   confidence |-> f[i].confidence]]
    IN  [shapes |-> shs,
         connectors |-> IF Len(f) >= 2 THEN <<Connector(shs[1], shs[2], "v")>>
                        ELSE <<>>,
         detector |-> "opencv-calibrated",
         image_size |-> ImgSize]

OcrEnvs(n) ==
    {[lib |-> l, opens |-> o, outcomes |-> oc] :
        l \in BOOLEAN, o \in BOOLEAN, oc \in [1..n -> OcrOutcomes]}

NoOcrGeometry == MkOcrGeometry(<<>>)

\* the same shapes with the text and confidence of the ShapePrimitives filled
\* in: as detect_geometry leaves them, as an OCR pass may, or mixed
Decorations == {"detected", "annotated", "mixed"}

Decorate(shs, d) ==
    [i \in 1..Len(shs) |->
        [id |-> shs[i].id, bbox |-> shs[i].bbox, shape_type |-> shs[i].shape_type,
         text |-> IF d = "detected" THEN TextNone
                  ELSE IF d = "annotated" THEN Text(<<"H", "i">>)
                  ELSE IF i % 2 = 1 THEN Text(<<>>) ELSE Text(<<"o", "l", "d">>),
         confidence |-> IF d = "detected" THEN 75
                        ELSE IF d = "annotated" THEN 10
                        ELSE IF i % 2 = 1 THEN 100 ELSE 72]]

\* the shapes of the repeated builds: a decision in the top, left or middle
\* box or off the grid, or a process in the top or bottom box
RerunShapeOptions ==
    ({<<10, 0, 17, 7>>, <<0, 10, 7, 17>>, <<10, 10, 17, 17>>, <<16, 16, 23, 23>>}
        \X {"decision"})
    \cup ({<<10, 0, 17, 7>>, <<10, 20, 17, 27>>} \X {"process"})

RerunShapeLists(max) ==
    UNION {[1..n -> RerunShapeOptions] : n \in 0..max}

NoRerun == [shapes |-> <<>>, flow |-> NoFlow]

\* a post_with_retries call at its first loop test: attempt = 0, nothing sent
HttpCall(max_attempts, backoff) ==
    [max_attempts |-> max_attempts, backoff |-> backoff, attempt |-> 0,
     requests |-> 0, failures |-> <<>>, sleeps |-> <<>>,
     outcome |-> "running", raised |-> NoneVal]

NoHttp == [HttpCall(0, 0) EXCEPT !.outcome = NoneVal]

Backoffs == {0, 6, 10}

\* the objects handed to parse_semantic_json
SemNodeOptions ==
    {[id |-> "n0", inferred_shape |-> "terminator", text_summary |-> "Start",
      role |-> "start"],
     [id |-> "n1", inferred_shape |-> "process", text_summary |-> "Do thing",
      role |-> Missing],
     [id |-> Missing, inferred_shape |-> Missing, text_summary |-> Missing,
      role |-> NoneVal]}

SemEdge(from, to, source, target) ==
    [from |-> from, to |-> to, source |-> source, target |-> target,
     label |-> NoneVal]

SemEdgeOptions ==
    {SemEdge("n0", "n1", Missing, Missing),
     SemEdge(Missing, Missing, "n0", "n1"),
     SemEdge("n0", "n1", "n1", "n0"),
     SemEdge(NoneVal, "n1", "n1", Missing),
     [SemEdge(Missing, Missing, Missing, Missing) EXCEPT !.label = Missing]}

Rankdirs ==
    {NoRankdir, [kind |-> "number", chars |-> <<>>]}
    \cup {[kind |-> "str", chars |-> c] :
            c \in {<<"L", "R">>, <<"l", "r">>, <<"T", "B">>, <<"t", "d">>,
                   <<"B", "T">>, <<"L">>}}

SemLayouts ==
    {[kind |-> "missing", dict |-> EmptyLayout], [kind |-> "null", dict |-> EmptyLayout]}
    \cup {[kind |-> "dict", dict |-> [orientation |-> o, rankdir |-> rd]] :
            o \in {Missing, NoneVal, "top-down", "left-right", "radial"},
            rd \in Rankdirs}

SemLists(options, max) ==
    {[present |-> FALSE, list |-> <<>>]}
    \cup {[present |-> TRUE, list |-> l] :
            l \in UNION {[1..n -> options] : n \in 0..max}}

SemData(max) ==
    {[layout |-> l, nodes |-> ns, edges |-> es] :
        l \in SemLayouts, ns \in SemLists(SemNodeOptions, max),
        es \in SemLists(SemEdgeOptions, max)}

NoSemData ==
    [layout |-> [kind |-> "missing", dict |-> EmptyLayout],
     nodes |-> [present |-> FALSE, list |-> <<>>],
     edges |-> [present |-> FALSE, list |-> <<>>]]

NoSkeleton == [orientation |-> NoneVal, nodes |-> <<>>, edges |-> <<>>]

NoSemantic == [data |-> NoSemData, result |-> NoSkeleton]

NoOcr ==
    [before |-> NoOcrGeometry, geometry |-> NoOcrGeometry,
     env |-> [lib |-> FALSE, opens |-> FALSE, outcomes |-> <<>>],
     result |-> NoOcrGeometry]

\* a run starts either from a geometry handed to build_flowgraph or from an
\* image handed to detect_geometry
InitGeometry ==
    /\ pc = "geometry"
    /\ \E f \in ShapeLists(MaxShapes) : shapes = MkShapes(f)
    /\ image = NoImage
    /\ params = NoParams

InitImage ==
    /\ pc = "image"
    /\ shapes = <<>>
    /\ image \in Images(MaxRects)
    /\ params \in IF Len(image.contours) + 2 > MaxRects
                  THEN CapParamOptions ELSE ParamOptions

Init ==
    /\ (InitGeometry \/ InitImage)
    /\ hints = [isNone |-> TRUE, map |-> <<>>]
    /\ forced = NoneVal
    /\ flow = NoFlow
    /\ geometry = NoGeometry
    /\ semantic = NoSemantic
    /\ http = NoHttp
    /\ rerun = NoRerun
    /\ ocr = NoOcr
    /\ export = NoExport

\* detect_geometry(image_path, params)
DetectGeometry ==
    /\ pc = "image"
    /\ geometry' = detect_geometry(image, params)
    /\ pc' = "detected"
    /\ UNCHANGED <<shapes, hints, forced, flow, image, params, export, ocr, rerun, http, semantic>>

\* build_flowgraph(geometry, yes_no_hints, forced_orientation), run by a caller
\* on the geometry: orientation, out and provisional branches, hint overrides,
\* start node
BuildFlowgraph ==
    /\ pc = "geometry"
    /\ \E f \in Orientations :
        \E o \in {ChosenOrientation(shapes, f)} :
        \E prov \in {ProvisionalNodes(shapes, o)} :
        \E h \in HintMaps({shapes[i].id : i \in 1..Len(shapes)} \cup {"sX"}) :
            /\ forced' = f
            /\ hints' = h
            /\ flow' = SelectStart(shapes, ApplyHints(prov, h), o)
    /\ pc' = "built"
    /\ UNCHANGED <<shapes, image, params, geometry, export, ocr, rerun, http, semantic>>

Next == DetectGeometry \/ BuildFlowgraph

Spec == Init /\ [][Next]_vars

\* build_flowgraph called on the same geometry and forced orientation with a
\* hint map (flow) and with yes_no_hints = None (rerun.flow)
InitBuild ==
    /\ InitGeometry
    /\ hints = NoHints
    /\ forced = NoneVal
    /\ flow = NoFlow
    /\ geometry = NoGeometry
    /\ semantic = NoSemantic
    /\ http = NoHttp
    /\ rerun = NoRerun
    /\ ocr = NoOcr
    /\ export = NoExport

BuildHinted ==
    /\ pc = "geometry"
    /\ \E f \in Orientations :
        \E o \in {ChosenOrientation(shapes, f)} :
        \E prov \in {ProvisionalNodes(shapes, o)} :
        \E plain \in {SelectStart(shapes, ApplyHints(prov, NoHints), o)} :
        \E h \in HintMaps({shapes[i].id : i \in 1..Len(shapes)} \cup {"sX"}) :
            /\ forced' = f
            /\ hints' = h
            /\ flow' = SelectStart(shapes, ApplyHints(prov, h), o)
            /\ rerun' = [shapes |-> shapes, flow |-> plain]
    /\ pc' = "built"
    /\ UNCHANGED <<shapes, image, params, geometry, export, ocr, http, semantic>>

NextBuild == BuildHinted

SpecBuild == InitBuild /\ [][NextBuild]_vars

\* detect_geometry on its own
InitDetect ==
    /\ InitImage
    /\ hints = [isNone |-> TRUE, map |-> <<>>]
    /\ forced = NoneVal
    /\ flow = NoFlow
    /\ geometry = NoGeometry
    /\ semantic = NoSemantic
    /\ http = NoHttp
    /\ rerun = NoRerun
    /\ ocr = NoOcr
    /\ export = NoExport

NextDetect == DetectGeometry

SpecDetect == InitDetect /\ [][NextDetect]_vars

\* the exports of a FlowGraph: to_json, then the rebuild from the loaded
\* object; to_mermaid
InitExport ==
    /\ pc = "graph"
    /\ \E g \in ExportGraphs(MaxNodes) : export = [NoExport EXCEPT !.graph = g]
    /\ shapes = <<>>
    /\ image = NoImage
    /\ params = NoParams
    /\ hints = [isNone |-> TRUE, map |-> <<>>]
    /\ forced = NoneVal
    /\ flow = NoFlow
    /\ geometry = NoGeometry
    /\ semantic = NoSemantic
    /\ http = NoHttp
    /\ rerun = NoRerun
    /\ ocr = NoOcr

ToJson ==
    /\ pc = "graph"
    /\ export' = [export EXCEPT !.json = to_json(export.graph)]
    /\ pc' = "json"
    /\ UNCHANGED <<shapes, hints, forced, flow, image, params, geometry, ocr, rerun, http, semantic>>

RebuildFlow ==
    /\ pc = "json"
    /\ export' = [export EXCEPT !.rebuilt = Rebuild(export.json)]
    /\ pc' = "rebuilt"
    /\ UNCHANGED <<shapes, hints, forced, flow, image, params, geometry, ocr, rerun, http, semantic>>

ToMermaid ==
    /\ pc = "graph"
    /\ export' = [export EXCEPT !.mermaid = to_mermaid(export.graph)]
    /\ pc' = "mermaid"
    /\ UNCHANGED <<shapes, hints, forced, flow, image, params, geometry, ocr, rerun, http, semantic>>

NextExport == ToJson \/ RebuildFlow \/ ToMermaid

SpecExport == InitExport /\ [][NextExport]_vars

\* annotate_ocr on a GeometryOutput
InitOcr ==
    /\ pc = "ocr"
    /\ \E f \in OcrShapeLists(MaxShapes) : \E e \in OcrEnvs(Len(f)) :
        ocr = [before |-> MkOcrGeometry(f), geometry |-> MkOcrGeometry(f),
               env |-> e, result |-> NoOcrGeometry]
    /\ shapes = <<>>
    /\ image = NoImage
    /\ params = NoParams
    /\ hints = [isNone |-> TRUE, map |-> <<>>]
    /\ forced = NoneVal
    /\ flow = NoFlow
    /\ geometry = NoGeometry
    /\ semantic = NoSemantic
    /\ http = NoHttp
    /\ rerun = NoRerun
    /\ export = NoExport

\* annotate_ocr(image_path, geometry); the call assigns to no attribute of its
\* argument
AnnotateOcr ==
    /\ pc = "ocr"
    /\ ocr' = [ocr EXCEPT !.result = annotate_ocr(ocr.geometry, ocr.env)]
    /\ pc' = "annotated"
    /\ UNCHANGED <<shapes, hints, forced, flow, image, params, geometry, export, rerun, http, semantic>>

NextOcr == AnnotateOcr

SpecOcr == InitOcr /\ [][NextOcr]_vars

\* two build_flowgraph calls with the same hints and forced orientation on
\* shapes that agree in id, bbox and shape_type
InitRerun ==
    /\ pc = "pair"
    /\ \E f \in RerunShapeLists(MaxShapes) : \E d \in Decorations :
        /\ shapes = Decorate(MkShapes(f), "detected")
        /\ rerun = [shapes |-> Decorate(MkShapes(f), d), flow |-> NoFlow]
    /\ image = NoImage
    /\ params = NoParams
    /\ hints = [isNone |-> TRUE, map |-> <<>>]
    /\ forced = NoneVal
    /\ flow = NoFlow
    /\ geometry = NoGeometry
    /\ semantic = NoSemantic
    /\ http = NoHttp
    /\ export = NoExport
    /\ ocr = NoOcr

BuildFirst ==
    /\ pc = "pair"
    /\ \E f \in Orientations :
        \E o \in {ChosenOrientation(shapes, f)} :
        \E prov \in {ProvisionalNodes(shapes, o)} :
        \E h \in HintMaps({shapes[i].id : i \in 1..Len(shapes)} \cup {"sX"}) :
            /\ forced' = f
            /\ hints' = h
            /\ flow' = SelectStart(shapes, ApplyHints(prov, h), o)
    /\ pc' = "first"
    /\ UNCHANGED <<shapes, image, params, geometry, export, ocr, rerun, http, semantic>>

BuildSecond ==
    /\ pc = "first"
    /\ \E o \in {ChosenOrientation(rerun.shapes, forced)} :
        \E prov \in {ProvisionalNodes(rerun.shapes, o)} :
            rerun' = [rerun EXCEPT
                        !.flow = SelectStart(rerun.shapes, ApplyHints(prov, hints), o)]
    /\ pc' = "second"
    /\ UNCHANGED <<shapes, hints, forced, flow, image, params, geometry, export, ocr, http, semantic>>

NextRerun == BuildFirst \/ BuildSecond

SpecRerun == InitRerun /\ [][NextRerun]_vars

\* post_with_retries(url, payload, max_attempts, backoff), one loop pass per step
InitHttp ==
    /\ pc = "http"
    /\ \E m \in 0..MaxAttempts : \E b \in Backoffs : http = HttpCall(m, b)
    /\ shapes = <<>>
    /\ image = NoImage
    /\ params = NoParams
    /\ hints = [isNone |-> TRUE, map |-> <<>>]
    /\ forced = NoneVal
    /\ flow = NoFlow
    /\ geometry = NoGeometry
    /\ semantic = NoSemantic
    /\ export = NoExport
    /\ ocr = NoOcr
    /\ rerun = NoRerun

HttpIdle ==
    UNCHANGED <<pc, shapes, hints, forced, flow, image, params, geometry, export, ocr, rerun, semantic>>

\* line 21 is false: the loop is left and the function returns None
LoopEnds ==
    /\ pc = "http"
    /\ http.outcome = "running"
    /\ ~(http.attempt < http.max_attempts)
    /\ http' = [http EXCEPT !.outcome = "returned None"]
    /\ HttpIdle

\* lines 22-25: the request is sent, succeeds and its response is returned
PostSucceeds ==
    /\ pc = "http"
    /\ http.outcome = "running"
    /\ http.attempt < http.max_attempts
    /\ http' = [http EXCEPT !.requests = @ + 1, !.outcome = "returned response"]
    /\ HttpIdle

\* lines 22-30: the request is sent and raises a RequestException; the call
\* re-raises it when the attempts are used up, else sleeps and loops
PostFails ==
    /\ pc = "http"
    /\ http.outcome = "running"
    /\ http.attempt < http.max_attempts
    /\ \E exc \in RequestExceptions :
        \E a \in {http.attempt + 1} :
            http' = IF Exhausted(a, http.max_attempts)
                    THEN [http EXCEPT !.requests = @ + 1, !.attempt = a,
                                      !.failures = Append(@, exc),
                                      !.outcome = "raised", !.raised = exc]
                    ELSE [http EXCEPT !.requests = @ + 1, !.attempt = a,
                                      !.failures = Append(@, exc),
                                      !.sleeps = Append(@, SleepTime(http.backoff, a))]
    /\ HttpIdle

\* lines 22-24: the request raises an exception that is not a RequestException,
\* which the except clause lets through
PostBreaks ==
    /\ pc = "http"
    /\ http.outcome = "running"
    /\ http.attempt < http.max_attempts
    /\ http' = [http EXCEPT !.requests = @ + 1, !.outcome = "raised",
                            !.raised = "TypeError"]
    /\ HttpIdle

NextHttp == LoopEnds \/ PostSucceeds \/ PostFails \/ PostBreaks

SpecHttp == InitHttp /\ [][NextHttp]_vars

\* parse_semantic_json on a loaded object
InitSemantic ==
    /\ pc = "semantic"
    /\ \E d \in SemData(MaxNodes) : semantic = [data |-> d, result |-> NoSkeleton]
    /\ shapes = <<>>
    /\ image = NoImage
    /\ params = NoParams
    /\ hints = [isNone |-> TRUE, map |-> <<>>]
    /\ forced = NoneVal
    /\ flow = NoFlow
    /\ geometry = NoGeometry
    /\ export = NoExport
    /\ ocr = NoOcr
    /\ rerun = NoRerun
    /\ http = NoHttp

ParseSemanticJson ==
    /\ pc = "semantic"
    /\ semantic' = [semantic EXCEPT !.result = parse_semantic_json(semantic.data)]
    /\ pc' = "parsed"
    /\ UNCHANGED <<shapes, hints, forced, flow, image, params, geometry, export, ocr, rerun, http>>

NextSemantic == ParseSemanticJson

SpecSemantic == InitSemantic /\ [][NextSemantic]_vars

(***************************************************************************)
(* Properties of build_flowgraph                                           *)
(***************************************************************************)
\* build_flowgraph returned a FlowGraph (it did not raise)
Returned == pc = "built" /\ flow.raised = NoneVal

ShapeIds == {shapes[i].id : i \in 1..Len(shapes)}

Pointers(n) == {n.out, n.out_yes, n.out_no} \ {NoneVal}

\* id names a shape of least vertical center
IsTopmost(id) ==
    \E i \in 1..Len(shapes) :
        /\ shapes[i].id = id
        /\ \A j \in 1..Len(shapes) : CenterY(shapes[i].bbox) <= CenterY(shapes[j].bbox)

\* C1: the returned FlowGraph has exactly the shape ids as node keys and every
\* non-null out, out_yes, out_no is one of them and not the node's own id; every
\* connector returned by detect_geometry has from_id and to_id among the ids of
\* the returned shapes, also after the count cap discarded shapes.
C1_ReferencesResolve ==
    /\ Returned =>
        /\ NodeIds(flow.nodes) = ShapeIds
        /\ Len(flow.nodes) = Len(shapes)
        /\ \A i \in 1..Len(flow.nodes) :
            /\ Pointers(flow.nodes[i]) \subseteq ShapeIds
            /\ flow.nodes[i].id \notin Pointers(flow.nodes[i])
    /\ pc = "detected" =>
        \A k \in 1..Len(geometry.connectors) :
            {geometry.connectors[k].from_id, geometry.connectors[k].to_id}
                \subseteq {geometry.shapes[i].id : i \in 1..Len(geometry.shapes)}

\* C1 happens: the count cap discarded a shape and the kept shapes are connected
C1_Witness ==
    /\ pc = "detected"
    /\ Len(geometry.shapes) < Len(geometry.stages.materialized)
    /\ geometry.connectors # <<>>

ZeroInDegree == {i \in 1..Len(flow.nodes) : InDegree(flow.nodes, flow.nodes[i].id) = 0}

\* C2: a non-empty shape list in which every node has an incoming reference
\* yields a FlowGraph whose start_node is the topmost shape.
C2_CyclicStartIsTopmost ==
    (pc = "built" /\ Len(shapes) > 0 /\ ZeroInDegree = {})
        => (flow.raised = NoneVal /\ IsTopmost(flow.start_node))

\* C3: with two or more nodes of in-degree zero, start_node is the topmost shape.
C3_SeveralCandidatesTopmost ==
    (Returned /\ Cardinality(ZeroInDegree) >= 2) => IsTopmost(flow.start_node)

\* C4: start_node is set for every non-empty shape list and is a key of nodes;
\* with exactly one node of in-degree zero (counted over out, out_yes, out_no)
\* it is that node.
C4_StartNode ==
    (pc = "built" /\ Len(shapes) > 0)
        => /\ flow.raised = NoneVal
           /\ flow.start_node \in NodeIds(flow.nodes)
           /\ \A i \in 1..Len(flow.nodes) :
                ZeroInDegree = {i} => flow.start_node = flow.nodes[i].id

\* C5: no node mixes out with out_yes / out_no.
C5_NoPointerMix ==
    Returned =>
        \A i \in 1..Len(flow.nodes) :
            flow.nodes[i].out # NoneVal
                => (flow.nodes[i].out_yes = NoneVal /\ flow.nodes[i].out_no = NoneVal)

\* C6: a decision node with both branches set has out_yes # out_no.
C6_BranchesDiffer ==
    Returned =>
        \A i \in 1..Len(flow.nodes) :
            (flow.nodes[i].shape = "decision"
             /\ flow.nodes[i].out_yes # NoneVal /\ flow.nodes[i].out_no # NoneVal)
                => flow.nodes[i].out_yes # flow.nodes[i].out_no

\* C6 happens: a hinted decision in left-right orientation has both branches
C6_Witness ==
    /\ Returned
    /\ flow.orientation = "left-right"
    /\ ~hints.isNone
    /\ \E i \in 1..Len(flow.nodes) :
        /\ flow.nodes[i].shape = "decision"
        /\ flow.nodes[i].out_yes # NoneVal
        /\ flow.nodes[i].out_no # NoneVal

\* the overlap-gated votes the orientation rule is specified with
GatedDown(i) ==
    \E j \in 1..Len(shapes) :
        /\ j # i
        /\ CenterY(shapes[j].bbox) > CenterY(shapes[i].bbox)
        /\ XGate(shapes[i].bbox, shapes[j].bbox)

GatedRight(i) ==
    \E j \in 1..Len(shapes) :
        /\ j # i
        /\ CenterX(shapes[j].bbox) > CenterX(shapes[i].bbox)
        /\ YGate(shapes[i].bbox, shapes[j].bbox)

GatedDownVotes == Cardinality({i \in 1..Len(shapes) : GatedDown(i)})

GatedRightVotes == Cardinality({i \in 1..Len(shapes) : GatedRight(i)})

\* C7: for two or more shapes the inferred orientation is top-down exactly when
\* the overlap-gated downward votes are at least the overlap-gated rightward votes.
C7_GatedMajority ==
    (pc = "built" /\ forced = NoneVal /\ Len(shapes) >= 2)
        => (flow.orientation = "top-down" <=> GatedDownVotes >= GatedRightVotes)

\* the three-shape layout: terminator s0 on top, decision s1 below it with enough
\* x-overlap, process s2 to the right of s1 with enough y-overlap
ThreeShapeLayout ==
    /\ Len(shapes) = 3
    /\ shapes[1].shape_type = "terminator"
    /\ shapes[2].shape_type = "decision"
    /\ shapes[3].shape_type = "process"
    /\ CenterY(shapes[1].bbox) < CenterY(shapes[2].bbox)
    /\ CenterY(shapes[1].bbox) < CenterY(shapes[3].bbox)
    /\ XGate(shapes[1].bbox, shapes[2].bbox)
    /\ CenterX(shapes[3].bbox) > CenterX(shapes[2].bbox)
    /\ YGate(shapes[2].bbox, shapes[3].bbox)

\* C8: on the three-shape layout, without hints or forced orientation, the graph
\* is top-down with s0.out = s1, s1.out_yes = s2 and start_node = s0.
C8_ThreeShapeScenario ==
    (pc = "built" /\ forced = NoneVal /\ hints.isNone /\ ThreeShapeLayout)
        => /\ flow.raised = NoneVal
           /\ flow.orientation = "top-down"
           /\ flow.nodes[1].out = "s1"
           /\ flow.nodes[2].out_yes = "s2"
           /\ flow.start_node = "s0"

\* C9: the orientation of a returned FlowGraph is top-down or left-right.
C9_OrientationEnum ==
    Returned => flow.orientation \in {"top-down", "left-right"}

\* C10: a decision with a nearest candidate on both sides gets, with no hint
\* entry, out_no = left candidate and out_yes = right candidate; with a hint
\* entry whose left is "YES", out_yes = left candidate and out_no = right candidate.
C10_DefaultAndSwap ==
    Returned =>
        \A i \in 1..Len(shapes) :
            LET lb == LeftBest(shapes, i, flow.orientation)
                rb == RightBest(shapes, i, flow.orientation)
            IN  (shapes[i].shape_type = "decision" /\ lb # 0 /\ rb # 0)
                    => /\ (hints.isNone \/ shapes[i].id \notin DOMAIN hints.map)
                            => /\ flow.nodes[i].out_no = shapes[lb].id
                               /\ flow.nodes[i].out_yes = shapes[rb].id
                       /\ (~hints.isNone /\ shapes[i].id \in DOMAIN hints.map
                           /\ hints.map[shapes[i].id].left = "YES")
                            => /\ flow.nodes[i].out_yes = shapes[lb].id
                               /\ flow.nodes[i].out_no = shapes[rb].id

\* C10 happens: a decision with candidates on both sides and a left = "YES" hint
C10_Witness ==
    /\ Returned
    /\ ~hints.isNone
    /\ \E i \in 1..Len(shapes) :
        /\ shapes[i].shape_type = "decision"
        /\ LeftBest(shapes, i, flow.orientation) # 0
        /\ RightBest(shapes, i, flow.orientation) # 0
        /\ shapes[i].id \in DOMAIN hints.map
        /\ hints.map[shapes[i].id].left = "YES"
        /\ flow.nodes[i].out_yes = shapes[LeftBest(shapes, i, flow.orientation)].id

(***************************************************************************)
(* Properties of detect_geometry                                           *)
(***************************************************************************)
Detected == pc = "detected"

\* C11: every shape of a returned GeometryOutput has x1 < x2 and y1 < y2, the
\* fallback shape of an unreadable image of unknown size included.
C11_NonDegenerate ==
    Detected =>
        \A i \in 1..Len(geometry.shapes) :
            /\ geometry.shapes[i].bbox[1] < geometry.shapes[i].bbox[3]
            /\ geometry.shapes[i].bbox[2] < geometry.shapes[i].bbox[4]

\* a calibration field int() rejects
Malformed(fld) == fld.tag \in {"null", "bad"}

\* the run threw inside the try block: cv2 did not read the image, a median
\* field was malformed, or the node count was malformed with shapes present
Threw ==
    \/ ~image.cv
    \/ /\ ~params.isNone
       /\ Malformed(params.median_shape_width) \/ Malformed(params.median_shape_height)
    \/ /\ ~params.isNone
       /\ params.estimated_node_count.tag = "bad"
       /\ geometry.stages.materialized # <<>>

\* the image size detect_geometry knows when it reaches the except branch
KnownSize == IF image.pil \/ image.cv THEN image.size ELSE <<0, 0>>

\* C12: whenever image reading or a detection step throws, detect_geometry
\* returns exactly one shape (s0, unknown, confidence 0.1, bbox (0,0,width,height)),
\* no connector and detector "placeholder", whatever was accumulated before.
C12_FallbackOnException ==
    (Detected /\ Threw) =>
        /\ geometry.shapes =
            <<[id |-> "s0", bbox |-> <<0, 0, KnownSize[1], KnownSize[2]>>,
               shape_type |-> "unknown", confidence |-> 10]>>
        /\ geometry.connectors = <<>>
        /\ geometry.detector = "placeholder"
        /\ geometry.image_size = KnownSize

\* C12 happens: the node count threw after shapes had been materialized
C12_Witness ==
    /\ Detected
    /\ params.estimated_node_count.tag = "bad"
    /\ Len(geometry.stages.materialized) >= 2
    /\ geometry.detector = "placeholder"

\* the calibration with every malformed field taken out
Repaired(p) ==
    [p EXCEPT
        !.median_shape_width = IF Malformed(@) THEN Absent ELSE @,
        !.median_shape_height = IF Malformed(@) THEN Absent ELSE @,
        !.estimated_node_count = IF Malformed(@) THEN Absent ELSE @]

\* C13: for a readable image a malformed calibration field is ignored: the
\* shapes are those returned when the field is absent.
C13_MalformedFieldIgnored ==
    (Detected /\ image.cv /\ ~params.isNone) =>
        geometry.shapes = detect_geometry(image, Repaired(params)).shapes

Elems(q) == {q[i] : i \in 1..Len(q)}

\* (confidence, area) of p is not below that of r
KeyGeq(p, r) ==
    p.conf > r.conf \/ (p.conf = r.conf /\ BoxArea(p.bbox) >= BoxArea(r.bbox))

\* C14: after NMS every two kept candidates have IoU < 0.6; candidates are
\* visited in descending (confidence, area) order, the first is kept, and every
\* rejected candidate has IoU >= 0.6 with a candidate kept before it.
C14_GreedyNms ==
    Detected =>
        LET m == geometry.stages.merged
            k == geometry.stages.picked
        IN  /\ \A i \in 1..Len(k) : \A j \in 1..Len(k) :
                i < j => /\ IouBelow06(k[i].bbox, k[j].bbox)
                         /\ KeyGeq(k[i], k[j])
            /\ Elems(k) \subseteq Elems(m)
            /\ m # <<>> => (k # <<>> /\ \A j \in 1..Len(m) : KeyGeq(k[1], m[j]))
            /\ \A j \in 1..Len(m) :
                m[j] \notin Elems(k) =>
                    \E i \in 1..Len(k) :
                        /\ KeyGeq(k[i], m[j])
                        /\ 5 * Inter(k[i].bbox, m[j].bbox) > 3 * Union(k[i].bbox, m[j].bbox)

\* C14 happens: NMS rejected a merged candidate and kept at least two
C14_Witness ==
    /\ Detected
    /\ Len(geometry.stages.picked) >= 2
    /\ Len(geometry.stages.picked) < Len(geometry.stages.merged)

\* C15: no two boxes of the merged output are within the 5-pixel pad of each other.
C15_MergedApart ==
    Detected =>
        \A i \in 1..Len(geometry.stages.merged) :
            \A j \in 1..Len(geometry.stages.merged) :
                i # j => ~IsClose(geometry.stages.merged[i].bbox,
                                  geometry.stages.merged[j].bbox)

\* C16: with estimated_node_count N > 0 and more than 3N surviving shapes,
\* exactly 3N shapes are returned and none is smaller than a discarded one;
\* otherwise the surviving shapes are returned unchanged.
C16_CountCap ==
    (Detected /\ geometry.detector = "opencv-calibrated") =>
        LET mat == geometry.stages.materialized
            shs == geometry.shapes
            e   == params.estimated_node_count
        IN  IF ~params.isNone /\ e.tag = "int" /\ e.val > 0 /\ Len(mat) > 3 * e.val
            THEN /\ Len(shs) = 3 * e.val
                 /\ Elems(shs) \subseteq Elems(mat)
                 /\ \A kept \in Elems(shs) : \A gone \in Elems(mat) \ Elems(shs) :
                        BoxArea(kept.bbox) >= BoxArea(gone.bbox)
            ELSE shs = mat

\* C16 happens: four shapes survived, the cap kept three and reordered them
C16_Witness ==
    /\ Detected
    /\ params.estimated_node_count = IntField(1)
    /\ Len(geometry.stages.materialized) = 4
    /\ Len(geometry.shapes) = 3
    /\ geometry.shapes[1].id # geometry.stages.materialized[1].id

\* C17: the n returned shapes carry the ids s0, ..., s(n-1) in list order.
C17_DenseIds ==
    Detected =>
        \A i \in 1..Len(geometry.shapes) : geometry.shapes[i].id = SId(i - 1)

\* C18: no unordered pair {from_id, to_id} occurs in two connectors, every
\* connector has from_id # to_id and at least 2 points.
C18_ConnectorPairs ==
    Detected =>
        LET c == geometry.connectors
        IN  /\ \A i \in 1..Len(c) : \A j \in 1..Len(c) :
                i # j => {c[i].from_id, c[i].to_id} # {c[j].from_id, c[j].to_id}
            /\ \A i \in 1..Len(c) : c[i].from_id # c[i].to_id /\ Len(c[i].points) >= 2

(***************************************************************************)
(* Properties of to_json and to_mermaid                                    *)
(***************************************************************************)
\* the characters of some node text of g include c
HasChar(g, c) ==
    \E i \in 1..Len(g.nodes) : \E k \in 1..Len(g.nodes[i].text) :
        g.nodes[i].text[k] = c

\* C19: for every FlowGraph, the graph rebuilt from the object to_json
\* serialized equals the original in nodes, start_node and orientation.
C19_RoundTrip ==
    pc = "rebuilt" =>
        /\ export.rebuilt.nodes = export.graph.nodes
        /\ export.rebuilt.start_node = export.graph.start_node
        /\ export.rebuilt.orientation = export.graph.orientation

\* a rebuilt two-node graph whose texts hold a quote and a backslash, with a
\* None start node and None pointers
C19_Witness ==
    /\ pc = "rebuilt"
    /\ Len(export.graph.nodes) = 2
    /\ HasChar(export.graph, DQ)
    /\ HasChar(export.graph, BS)
    /\ export.graph.start_node = NoneVal
    /\ export.graph.nodes[1].out = NoneVal
    /\ export.json.start_node = <<"null">>
    /\ export.rebuilt = export.graph

\* the lines of a string: str.split("\n")
RECURSIVE SplitFrom(_, _, _)
SplitFrom(toks, i, cur) ==
    IF i > Len(toks) THEN <<cur>>
    ELSE IF toks[i] = NL THEN <<cur>> \o SplitFrom(toks, i + 1, <<>>)
    ELSE SplitFrom(toks, i + 1, Append(cur, toks[i]))

SplitLines(toks) == SplitFrom(toks, 1, <<>>)

\* the statements of a node's non-null pointers: out, out_yes, out_no
PointerStatements(n) ==
    (IF n.out # NoneVal THEN <<<<"    ", n.id, " --> ", n.out>>>> ELSE <<>>)
    \o (IF n.out_yes # NoneVal
        THEN <<<<"    ", n.id, " --|YES|--> ", n.out_yes>>>> ELSE <<>>)
    \o (IF n.out_no # NoneVal
        THEN <<<<"    ", n.id, " --|NO|--> ", n.out_no>>>> ELSE <<>>)

RECURSIVE PointerStatementsFrom(_, _)
PointerStatementsFrom(ns, i) ==
    IF i > Len(ns) THEN <<>>
    ELSE PointerStatements(ns[i]) \o PointerStatementsFrom(ns, i + 1)

\* C20: for every FlowGraph, to_mermaid returns exactly 1 + |nodes| + (number
\* of non-null pointers) lines, one statement per line: the direction keyword
\* ("flowchart LR" for left-right, else "flowchart TD"), one declaration per
\* node in insertion order, then the edge lines per node in the order out,
\* out_yes, out_no.
C20_OneStatementPerLine ==
    pc = "mermaid" =>
        LET g == export.graph
            ls == SplitLines(export.mermaid)
            edges == PointerStatementsFrom(g.nodes, 1)
            n == Len(g.nodes)
        IN  /\ Len(ls) = 1 + n + Len(edges)
            /\ ls[1] = <<"flowchart ",
                         IF g.orientation = "left-right" THEN "LR" ELSE "TD">>
            /\ \A i \in 1..n :
                 ls[1 + i] = <<"    ", g.nodes[i].id>> \o node_label(g.nodes[i])
            /\ \A k \in 1..Len(edges) : ls[1 + n + k] = edges[k]

\* box a lies inside box b
Inside(a, b) == b[1] <= a[1] /\ b[2] <= a[2] /\ a[3] <= b[3] /\ a[4] <= b[4]

HintedBothSides(i) ==
    /\ shapes[i].shape_type = "decision"
    /\ ~hints.isNone
    /\ shapes[i].id \in DOMAIN hints.map
    /\ LeftBest(shapes, i, flow.orientation) # 0
    /\ RightBest(shapes, i, flow.orientation) # 0

\* C21: hints are additive: for the same geometry and forced orientation the
\* graph built with any hint map differs from the one built with no hints (None
\* or an empty map) only in out_yes / out_no of decisions named in the map that
\* have candidates on both sides; node set, out, orientation and start_node are
\* the same.
C21_HintsAdditive ==
    pc = "built" =>
        LET base == rerun.flow
        IN  /\ hints \in {NoHints, EmptyHints} => flow = base
            /\ flow.raised = base.raised
            /\ flow.orientation = base.orientation
            /\ flow.start_node = base.start_node
            /\ Len(flow.nodes) = Len(base.nodes)
            /\ \A i \in 1..Len(flow.nodes) :
                /\ flow.nodes[i].id = base.nodes[i].id
                /\ flow.nodes[i].shape = base.nodes[i].shape
                /\ flow.nodes[i].out = base.nodes[i].out
                /\ flow.nodes[i] = base.nodes[i] \/ HintedBothSides(i)

\* C21 happens: a hint map swapped the branches of a two-sided decision, next
\* to a node it left alone, and the call returned
C21_Witness ==
    /\ Returned
    /\ Len(shapes) = 3
    /\ \E i \in 1..Len(shapes) :
        /\ HintedBothSides(i)
        /\ flow.nodes[i].out_yes = rerun.flow.nodes[i].out_no
        /\ flow.nodes[i] # rerun.flow.nodes[i]
    /\ \E i \in 1..Len(shapes) :
        /\ shapes[i].shape_type = "decision"
        /\ shapes[i].id \in DOMAIN hints.map
        /\ ~HintedBothSides(i)
        /\ flow.nodes[i].out_yes # NoneVal

\* C23: with no forced orientation, zero shapes give top-down orientation, an
\* empty node map and start_node null; exactly one shape (any type, any hint
\* map) gives top-down orientation, one node with out, out_yes and out_no all
\* null, and start_node equal to that node's id.
C23_ZeroOrOneShape ==
    (pc = "built" /\ forced = NoneVal /\ Len(shapes) <= 1) =>
        /\ flow.raised = NoneVal
        /\ flow.orientation = "top-down"
        /\ Len(flow.nodes) = Len(shapes)
        /\ Len(shapes) = 0 => flow.start_node = NoneVal
        /\ Len(shapes) = 1 =>
            /\ flow.nodes[1].id = shapes[1].id
            /\ flow.nodes[1].out = NoneVal
            /\ flow.nodes[1].out_yes = NoneVal
            /\ flow.nodes[1].out_no = NoneVal
            /\ flow.start_node = shapes[1].id

\* C23 happens: a single decision built with a hint entry left = "YES" for it
C23_Witness ==
    /\ pc = "built"
    /\ forced = NoneVal
    /\ Len(shapes) = 1
    /\ shapes[1].shape_type = "decision"
    /\ ~hints.isNone
    /\ shapes[1].id \in DOMAIN hints.map
    /\ hints.map[shapes[1].id].left = "YES"
    /\ flow.start_node = "s0"

\* the empty geometry was built
EmptyGeometryBuilt ==
    pc = "built" /\ forced = NoneVal /\ Len(shapes) = 0 /\ flow.nodes = <<>>

AxisCenter(b) == IF flow.orientation = "top-down" THEN b[2] + b[4] ELSE b[1] + b[3]

SpanLo(b) == IF flow.orientation = "top-down" THEN b[1] ELSE b[2]

SpanHi(b) == IF flow.orientation = "top-down" THEN b[3] ELSE b[4]

\* the overlap of two spans, and whether it exceeds 15% of the smaller span
SpanOverlap(a, b) ==
    LET lo == IF SpanLo(a) >= SpanLo(b) THEN SpanLo(a) ELSE SpanLo(b)
        hi == IF SpanHi(a) <= SpanHi(b) THEN SpanHi(a) ELSE SpanHi(b)
    IN  IF hi > lo THEN hi - lo ELSE 0

SmallerSpan(a, b) ==
    IF SpanHi(a) - SpanLo(a) <= SpanHi(b) - SpanLo(b)
    THEN SpanHi(a) - SpanLo(a) ELSE SpanHi(b) - SpanLo(b)

\* j qualifies as the forward neighbour of i
Qualifies(i, j) ==
    /\ j # i
    /\ AxisCenter(shapes[j].bbox) > AxisCenter(shapes[i].bbox)
    /\ 100 * SpanOverlap(shapes[i].bbox, shapes[j].bbox)
         > 15 * SmallerSpan(shapes[i].bbox, shapes[j].bbox)

\* C25: for every shape s, out is the shape t # s whose center is strictly ahead
\* on the flow axis (below in top-down, to the right otherwise), whose overlap
\* with s on the other axis is more than 15% of the smaller span, and whose
\* center distance on the flow axis is least, the earliest in list order on
\* equal distance; out is null when no shape qualifies.
C25_NearestForward ==
    pc = "built" =>
        \A i \in 1..Len(shapes) :
            LET Q == {j \in 1..Len(shapes) : Qualifies(i, j)}
            IN  /\ Q = {} => flow.nodes[i].out = NoneVal
                /\ \A j \in Q :
                    (\A k \in Q :
                        \/ AxisCenter(shapes[j].bbox) < AxisCenter(shapes[k].bbox)
                        \/ (AxisCenter(shapes[j].bbox) = AxisCenter(shapes[k].bbox)
                            /\ j <= k))
                        => flow.nodes[i].out = shapes[j].id

\* C25 happens: a shape ahead with a positive overlap below the gate was passed
\* over for a farther one, in a graph the call returned
C25_Witness ==
    /\ Returned
    /\ \E i, j, k \in 1..Len(shapes) :
        /\ j # i
        /\ AxisCenter(shapes[j].bbox) > AxisCenter(shapes[i].bbox)
        /\ SpanOverlap(shapes[i].bbox, shapes[j].bbox) > 0
        /\ ~Qualifies(i, j)
        /\ Qualifies(i, k)
        /\ AxisCenter(shapes[k].bbox) > AxisCenter(shapes[j].bbox)
        /\ flow.nodes[i].out = shapes[k].id

\* a tie on the distance went to the earlier shape
TieToEarliest ==
    /\ Returned
    /\ \E i, j, k \in 1..Len(shapes) :
        /\ j < k
        /\ Qualifies(i, j)
        /\ Qualifies(i, k)
        /\ AxisCenter(shapes[j].bbox) = AxisCenter(shapes[k].bbox)
        /\ flow.nodes[i].out = shapes[j].id

\* the index of the node with id nid (0 for None)
IndexOf(nid) ==
    IF nid = NoneVal THEN 0
    ELSE CHOOSE i \in 1..Len(flow.nodes) : flow.nodes[i].id = nid

\* the node reached from node i by following out k times (0 once out was null)
RECURSIVE FollowOut(_, _)
FollowOut(i, k) ==
    IF i = 0 \/ k = 0 THEN i
    ELSE FollowOut(IndexOf(flow.nodes[i].out), k - 1)

\* C28: in every graph build_flowgraph builds the out pointers alone form no
\* cycle: the center of each out target is strictly further along the flow
\* axis than the center of its source, so following out from any node ends
\* after at most |nodes| - 1 steps.
C28_OutAcyclic ==
    pc = "built" =>
        \A i \in 1..Len(flow.nodes) :
            /\ flow.nodes[i].out # NoneVal =>
                AxisCenter(shapes[IndexOf(flow.nodes[i].out)].bbox)
                    > AxisCenter(shapes[i].bbox)
            /\ FollowOut(i, Len(flow.nodes)) = 0
            /\ \A k \in 1..Len(flow.nodes) : FollowOut(i, k) # i

\* C28 happens: a returned graph with an out chain of |nodes| - 1 steps through
\* three nodes
C28_Witness ==
    /\ Returned
    /\ Len(flow.nodes) = 3
    /\ \E i \in 1..3 :
        /\ FollowOut(i, 1) # 0
        /\ FollowOut(i, 2) # 0
        /\ FollowOut(i, 3) = 0

\* a returned graph in which two decisions point at each other through out_yes
\* and out_no
BranchCycle ==
    /\ Returned
    /\ \E i, j \in 1..Len(flow.nodes) :
        /\ i # j
        /\ flow.nodes[j].id \in {flow.nodes[i].out_yes, flow.nodes[i].out_no}
        /\ flow.nodes[i].id \in {flow.nodes[j].out_yes, flow.nodes[j].out_no}

\* C30: after a hint entry was applied to a decision with candidates on both
\* sides, the candidate of a side hinted "YES" is not assigned to out_no and the
\* candidate of a side hinted "NO" is not assigned to out_yes, for every
\* combination of left / right values in {YES, NO, absent}.
C30_HintNeverContradicted ==
    Returned =>
        \A i \in 1..Len(shapes) :
            HintedBothSides(i) =>
                LET e  == hints.map[shapes[i].id]
                    lc == shapes[LeftBest(shapes, i, flow.orientation)].id
                    rc == shapes[RightBest(shapes, i, flow.orientation)].id
                IN  /\ e.left = "YES" => flow.nodes[i].out_no # lc
                    /\ e.left = "NO" => flow.nodes[i].out_yes # lc
                    /\ e.right = "YES" => flow.nodes[i].out_no # rc
                    /\ e.right = "NO" => flow.nodes[i].out_yes # rc


(***************************************************************************)
(* Properties of annotate_ocr                                              *)
(***************************************************************************)
\* the OCR of shape i raised or gave a text that strips to nothing
OcrGaveNothing(i) ==
    ocr.env.outcomes[i].raises \/ Strip(ocr.env.outcomes[i].raw) = <<>>

\* C22: annotate_ocr changes nothing but shape text: on every path the
\* returned GeometryOutput has the same number of shapes in the same order with
\* the same id, bbox, shape_type and confidence, the same connectors and
\* metadata; the input is not mutated; a shape whose OCR fails or returns empty
\* text keeps its previous text.
C22_OnlyTextChanges ==
    pc = "annotated" =>
        /\ ocr.geometry = ocr.before
        /\ Len(ocr.result.shapes) = Len(ocr.before.shapes)
        /\ ocr.result.connectors = ocr.before.connectors
        /\ ocr.result.detector = ocr.before.detector
        /\ ocr.result.image_size = ocr.before.image_size
        /\ \A i \in 1..Len(ocr.before.shapes) :
            /\ ocr.result.shapes[i].id = ocr.before.shapes[i].id
            /\ ocr.result.shapes[i].bbox = ocr.before.shapes[i].bbox
            /\ ocr.result.shapes[i].shape_type = ocr.before.shapes[i].shape_type
            /\ ocr.result.shapes[i].confidence = ocr.before.shapes[i].confidence
            /\ (~ocr.env.lib \/ ~ocr.env.opens \/ OcrGaveNothing(i))
                => ocr.result.shapes[i].text = ocr.before.shapes[i].text

\* C22 happens: in one call the OCR of a shape gave a new text, that of a shape
\* with a previous text gave blanks only and that of another raised
C22_Witness ==
    /\ pc = "annotated"
    /\ Len(ocr.before.shapes) = 3
    /\ ocr.before.connectors # <<>>
    /\ \E i \in 1..3 :
        /\ ~OcrGaveNothing(i)
        /\ ocr.result.shapes[i].text = Text(<<"H", "i">>)
        /\ ocr.result.shapes[i].text # ocr.before.shapes[i].text
    /\ \E i \in 1..3 :
        /\ ~ocr.env.outcomes[i].raises
        /\ ocr.env.outcomes[i].raw # <<>>
        /\ OcrGaveNothing(i)
        /\ ocr.result.shapes[i].text = Text(<<"o", "l", "d">>)
    /\ \E i \in 1..3 : ocr.env.outcomes[i].raises

(***************************************************************************)
(* Properties of post_with_retries                                         *)
(***************************************************************************)
\* C26: post_with_retries with max_attempts >= 1 sends at most max_attempts
\* requests; it returns the first successful response without sending a further
\* request; when all max_attempts requests fail it re-raises the last request
\* exception after exactly max_attempts requests, having slept
\* backoff * 2^(k-1) after the k-th failure for k = 1..max_attempts-1 and not
\* after the last one.
C26_BoundedRetries ==
    (pc = "http" /\ http.max_attempts >= 1) =>
        /\ http.requests <= http.max_attempts
        /\ http.outcome # "returned None"
        /\ http.outcome = "returned response" =>
            /\ http.requests = Len(http.failures) + 1
            /\ Len(http.sleeps) = Len(http.failures)
        /\ Len(http.failures) = http.max_attempts =>
            /\ http.outcome = "raised"
            /\ http.raised = http.failures[http.max_attempts]
            /\ http.requests = http.max_attempts
            /\ Len(http.sleeps) = http.max_attempts - 1
        /\ (http.outcome = "raised" /\ http.raised \in RequestExceptions) =>
            Len(http.failures) = http.max_attempts
        /\ \A k \in 1..Len(http.sleeps) :
            /\ k <= http.max_attempts - 1
            /\ http.sleeps[k] = http.backoff * 2 ^ (k - 1)

\* C26 happens: three requests failed with different exceptions, the last one
\* was re-raised after two sleeps
C26_Witness ==
    /\ pc = "http"
    /\ http.max_attempts = 3
    /\ http.outcome = "raised"
    /\ http.failures = <<"HTTPError", "HTTPError", "Timeout">>
    /\ http.raised = "Timeout"
    /\ http.sleeps = <<6, 12>>

\* a response came back on the last attempt allowed
SucceededOnLastAttempt ==
    /\ pc = "http"
    /\ http.outcome = "returned response"
    /\ http.requests = http.max_attempts
    /\ http.max_attempts = 3

(***************************************************************************)
(* Properties of parse_semantic_json                                       *)
(***************************************************************************)
Parsed == pc = "parsed"

InputNodes == IF semantic.data.nodes.present THEN semantic.data.nodes.list ELSE <<>>

InputEdges == IF semantic.data.edges.present THEN semantic.data.edges.list ELSE <<>>

\* the value of key a of an entry, that of key b when a is absent, null when
\* both are
FirstPresent(a, b) ==
    IF a # Missing THEN a ELSE IF b # Missing THEN b ELSE NoneVal

\* one Node per entry of "nodes" and one Edge per entry of "edges", in input
\* order, "source" / "target" used only when "from" / "to" are absent
NodesAndEdgesFollowInput ==
    /\ Len(semantic.result.nodes) = Len(InputNodes)
    /\ \A i \in 1..Len(InputNodes) :
        semantic.result.nodes[i].id
            = (IF InputNodes[i].id = Missing THEN NoneVal ELSE InputNodes[i].id)
    /\ Len(semantic.result.edges) = Len(InputEdges)
    /\ \A i \in 1..Len(InputEdges) :
        /\ semantic.result.edges[i].from_id
            = FirstPresent(InputEdges[i].from, InputEdges[i].source)
        /\ semantic.result.edges[i].to_id
            = FirstPresent(InputEdges[i].to, InputEdges[i].target)

\* the input orientation, or top-down when the layout or its orientation is
\* missing
StatedOrientation ==
    IF semantic.data.layout.kind = "dict"
       /\ semantic.data.layout.dict.orientation # Missing
    THEN semantic.data.layout.dict.orientation
    ELSE "top-down"

\* the input layout has a string rankdir whose first two letters are, in either
\* case, those of first and second
RankdirStarts(first, second) ==
    /\ semantic.data.layout.kind = "dict"
    /\ semantic.data.layout.dict.rankdir.kind = "str"
    /\ Len(semantic.data.layout.dict.rankdir.chars) >= 2
    /\ semantic.data.layout.dict.rankdir.chars[1] \in first
    /\ semantic.data.layout.dict.rankdir.chars[2] \in second

\* C27: parse_semantic_json returns one Node per entry of "nodes" and one Edge
\* per entry of "edges", in input order, with "from" / "to" (or, when absent,
\* "source" / "target") as from_id / to_id; layout.orientation is left-right
\* when the layout has a string rankdir starting with LR, top-down when it
\* starts with TB or TD (in either case of the letters), and otherwise the
\* input orientation, or top-down when the layout or its orientation is
\* missing.
C27_ParseWithRankdir ==
    Parsed =>
        /\ NodesAndEdgesFollowInput
        /\ semantic.result.orientation =
            (IF RankdirStarts({"L", "l"}, {"R", "r"}) THEN "left-right"
             ELSE IF RankdirStarts({"T", "t"}, {"B", "b", "D", "d"}) THEN "top-down"
             ELSE StatedOrientation)

\* C27 happens: two nodes and two edges, one edge with source / target only and
\* one with both spellings, parsed with a lower-case rankdir that overrides the
\* orientation given
C27_Witness ==
    /\ Parsed
    /\ Len(semantic.result.nodes) = 2
    /\ Len(semantic.result.edges) = 2
    /\ semantic.data.edges.list[1].from = Missing
    /\ semantic.result.edges[1].from_id = "n0"
    /\ semantic.data.edges.list[2].source = "n1"
    /\ semantic.result.edges[2].from_id = "n0"
    /\ semantic.data.layout.dict.orientation = "top-down"
    /\ semantic.data.layout.dict.rankdir.chars = <<"l", "r">>
    /\ semantic.result.orientation = "left-right"

\* C27 as stated: layout.orientation is the input orientation, or top-down when
\* the layout or its orientation is missing.
C27_ParseAsStated ==
    Parsed =>
        /\ NodesAndEdgesFollowInput
        /\ semantic.result.orientation = StatedOrientation


====
